---- MODULE Spec2Model ----
(***************************************************************************)
(* Streaming conversation session controller of ReactAgent_Frontend:       *)
(* AppProvider.sendToAgent and its stream / timer / fallback callbacks     *)
(* (src/src/context/AppContext.tsx, second AppProvider, lines 258-891),    *)
(* the EventSource wrapper streamChat and the plain request                *)
(* sendChatMessage (src/src/api/FastAPIClient.ts).                         *)
(*                                                                         *)
(* Texts are sequences of words, so that `startsWith('Agent ')`,           *)
(* `toLowerCase()` and `includes('rate limit')` are computed, not assumed. *)
(* Time is counted in steps of TimeStep milliseconds for the two short     *)
(* timers (indicator debounce, minimum visible time); the fallback timer,  *)
(* the cooldown interval and the busy auto-clear fire nondeterministically *)
(* but never before a short timer that was armed earlier than they were.   *)
(***************************************************************************)
EXTENDS Integers, Sequences, FiniteSets, TLC

\* ---------------------------------------------------------------- bounds
\* Number of submissions the model lets sendToAgent accept.
MaxSubs == 2

\* ------------------------------------------------------- program constants
DEBOUNCE_MS == 300
MIN_VISIBLE_MS == 450
COOLDOWN_SECONDS == 60

RECURSIVE GCD(_, _)
GCD(a, b) == IF b = 0 THEN a ELSE GCD(b, a % b)

\* Coarsest step in which both short timers are whole numbers of steps.
TimeStep == GCD(DEBOUNCE_MS, MIN_VISIBLE_MS)

NoTimer == 0 - 1
\* an absent token or chunk list
None == "none"
\* null / '' where a text is expected (no text of the model is empty)
NoText == << >>

\* ------------------------------------------------------------------ texts
\* What the user can type.
UserTexts == { <<"hello">>, <<"Agent", "smith">> }
\* What the service can answer.
ReplyTexts == { <<"ok">> }
\* Progress notices of `agent` events.
StatusTexts == { <<"Thinking">>, <<"Searching">> }
\* Messages of `error` events ("" stands for a missing message).
ErrorTexts == { <<"Rate", "limit", "exceeded">>, <<"Upstream", "failure">> }

RATE_LIMIT_TEXT ==
  <<"Rate", "limit", "exceeded.", "Please", "wait", "before", "sending", "another", "message.">>

Providers == { "ollama", "gemini", "openai" }

\* localStorage.getItem('currentProviderId') || 'gemini'
DefaultProvider == "gemini"

\* localStorage.getItem('currentProviderId') is null
NoStoredProvider == "unset"
StoredProviders == Providers \cup { NoStoredProvider }

ProviderOrDefault(stored) == IF stored = NoStoredProvider THEN DefaultProvider ELSE stored

ToLowerWord(w) ==
  CASE w = "Thinking" -> "thinking"
    [] w = "Searching" -> "searching"
    [] w = "Rate" -> "rate"
    [] w = "Upstream" -> "upstream"
    [] w = "Agent" -> "agent"
    [] OTHER -> w

\* String.prototype.toLowerCase
ToLowerCase(t) == [i \in 1..Len(t) |-> ToLowerWord(t[i])]

\* content.startsWith('Agent ')
StartsWithAgent(t) == Len(t) >= 2 /\ t[1] = "Agent"

\* msg.toLowerCase().includes('rate limit')
IncludesRateLimit(t) ==
  LET l == ToLowerCase(t)
  IN \E i \in 1..(Len(l) - 1) : l[i] = "rate" /\ l[i + 1] = "limit"

\* `Agent ${statusText.toLowerCase()}`
IndicatorContent(statusText) == <<"Agent">> \o ToLowerCase(statusText)

\* ------------------------------------------------------------------ state
VARIABLES
  messages,          \* useState<Message[]>: the Conversation
  isLoading,         \* useState: the "awaiting response" flag
  isRateLimited,     \* useState: RateLimitState.active
  rateLimitCooldown, \* useState: RateLimitState.remainingSeconds
  intervals,         \* number of live setInterval countdowns
  isModelBusy,       \* useState: transient "model busy" notice
  busyTimers,        \* number of pending 3000 ms auto-clear timeouts of setBusy
  connectionStatus,  \* useState: 'online' | 'offline' | 'checking'
  lastUserMessage,   \* useState: text of the last user message
  sendingRef,        \* useRef<boolean>: the single-flight lock
  activeRequestRef,  \* useRef<string | null>: text of the request in flight
  provider,          \* localStorage 'currentProviderId'
  memStore,          \* localStorage `mem:${sessionId}`
  isModelLoading,    \* useState, set by the model status tracker
  isModelUnloading,  \* useState, set by the model status tracker
  isProviderBusy,    \* useState, set by refreshModelStatus
  subs,              \* per accepted submission: the closure of its sendToAgent call
  nsubs,             \* number of accepted submissions
  nEvents,           \* number of events the streams have delivered
  modelStatus,       \* useState<ModelStatus | null>
  tracker,           \* closeStream of the tracker effect and its pending timeouts
  settingsCtx,       \* SettingsProvider: its state, refs, and localStorage 'chatSettings'
  last               \* history: the operation that produced this state

vars ==
  << messages, isLoading, isRateLimited, rateLimitCooldown, intervals, isModelBusy,
     busyTimers, connectionStatus, lastUserMessage, sendingRef, activeRequestRef,
     provider, memStore, isModelLoading, isModelUnloading, isProviderBusy, subs,
     nsubs, nEvents, modelStatus, tracker, settingsCtx, last >>

\* What only the model status tracker writes.
trackerVars == << modelStatus, tracker >>

\* What only the SettingsProvider writes.
settingsVars == << settingsCtx >>

\* Everything of the controller a user can observe or a later call depends on.
controllerVars ==
  << messages, isLoading, isRateLimited, rateLimitCooldown, intervals, isModelBusy,
     busyTimers, connectionStatus, lastUserMessage, sendingRef, activeRequestRef,
     memStore >>

SubIds == 1..MaxSubs

\* `last` after an operation no property needs to recognise
Quiet == [op |-> "other", s |-> 0, res |-> "", text |-> NoText]

\* ---------------------------------------------------------------- messages
UserMessage(text, s) ==
  [ role |-> "user", content |-> text, isIndicator |-> FALSE, isError |-> FALSE, sub |-> s ]

IndicatorMessage(statusText, s) ==
  [ role |-> "assistant", content |-> IndicatorContent(statusText), isIndicator |-> TRUE,
    isError |-> FALSE, sub |-> s ]

AgentMessage(resp, s) ==
  [ role |-> "assistant", content |-> resp.message, isIndicator |-> FALSE,
    isError |-> FALSE, sub |-> s ]

\* an error Message whose content is the lower-cased text
ErrorMessageLowerCase(text, s) ==
  [ role |-> "assistant", content |-> ToLowerCase(text), isIndicator |-> FALSE,
    isError |-> TRUE, sub |-> s ]

ErrorMessage(text, s) ==
  [ role |-> "assistant", content |-> text, isIndicator |-> FALSE, isError |-> TRUE, sub |-> s ]

NoMessage ==
  [ role |-> "none", content |-> NoText, isIndicator |-> FALSE, isError |-> FALSE, sub |-> 0 ]

Last(q) == q[Len(q)]
ButLast(q) == SubSeq(q, 1, Len(q) - 1)

\* prev.filter(m => !(m.role === 'assistant' && m.content.startsWith('Agent ')))
WithoutTrailingStatus(prev) ==
  SelectSeq(prev, LAMBDA m : ~(m.role = "assistant" /\ StartsWithAgent(m.content)))

IsTrailingIndicator(m) ==
  m.role = "assistant" /\ StartsWithAgent(m.content) /\ m.isIndicator

\* the setMessages updater of the debounce timeout
ShowIndicator(prev, statusText, s) ==
  Append(WithoutTrailingStatus(prev), IndicatorMessage(statusText, s))

\* the setMessages updater of a later `agent` event
UpdateIndicator(prev, statusText) ==
  IF Len(prev) = 0 THEN prev
  ELSE IF IsTrailingIndicator(Last(prev))
       THEN [prev EXCEPT ![Len(prev)].content = IndicatorContent(statusText)]
       ELSE prev

\* replaceFinal of the `answer` handler
ReplaceFinal(prev, agentMessage) ==
  IF Len(prev) > 0 /\ IsTrailingIndicator(Last(prev))
  THEN Append(ButLast(prev), agentMessage)
  ELSE Append(prev, agentMessage)

\* the setMessages updater of the `error` handler
ReplaceTrailing(prev, msg) ==
  IF Len(prev) > 0 THEN Append(ButLast(prev), msg) ELSE << msg >>

\* the setMessages updater of the fallback
FallbackReplace(prev, agentMessage) ==
  IF Len(prev) > 0 /\ StartsWithAgent(Last(prev).content)
  THEN Append(ButLast(prev), agentMessage)
  ELSE Append(prev, agentMessage)

\* prev.slice(0, -2)
SliceOffTwo(prev) == IF Len(prev) <= 2 THEN << >> ELSE SubSeq(prev, 1, Len(prev) - 2)

\* --------------------------------------------------------------- payloads
\* no memory: an absent localStorage item, `undefined`, or a response without memory
NoMemory == [token |-> None, chunks |-> None]

\* memory returned under the nested metadata field of a response
MetaPayloads == { NoMemory, [token |-> "m1", chunks |-> "c1"] }

\* ChatResponse, as carried by `answer` and returned by POST /chat
ChatResponses == [ message : ReplyTexts, cached : BOOLEAN, metadata : MetaPayloads ]

\* outcomes of the POST /chat of the fallback
HttpOutcomes ==
  [ status : {200}, data : ChatResponses ] \cup
  [ status : {429, 500, 0}, data : { [message |-> <<"Rate", "limit", "exceeded">>] } ]

\* options of a call: disableAllMemoryRecall
CallOptions == BOOLEAN

\* ---------------------------------------------------------------- closures
\* The variables one sendToAgent call closes over, and its connection and timers.
\*   es             EventSource: "open" | "closed" ("none" before the call)
\*   indicatorTimer remaining ms of the debounce timeout, NoTimer when not armed
\*   finalTimer     remaining ms of setTimeout(replaceFinal, ..), NoTimer when not armed
\*   fb             the safety timeout: "armed", "requesting" (POST in flight), "spent"
\*   shownElapsed   Date.now() - indicatorShownAt, saturating at MIN_VISIBLE_MS
\*   indEpoch, finEpoch   nsubs when the short timer was armed (timer ordering)
\*   nFallback, nStreamCommits, nFallbackCommits   history counters
FreshClosure ==
  [ text |-> NoText, done |-> FALSE, es |-> "none",
    indicatorTimer |-> NoTimer, timerStatus |-> NoText, indEpoch |-> 0,
    indicatorShown |-> FALSE, shownElapsed |-> 0,
    finalTimer |-> NoTimer, finalMsg |-> NoMessage, finEpoch |-> 0,
    fb |-> "none", memory |-> NoMemory, timeoutMs |-> 0,
    nFallback |-> 0, nStreamCommits |-> 0, nFallbackCommits |-> 0 ]

\* history counters saturate here
CountCap == 2
Bump(n) == IF n < CountCap THEN n + 1 ELSE n

\* a getTimeoutForProvider with one budget for every provider
GetTimeoutDefaultOnly(providerId) == 20000

\* getTimeoutForProvider
GetTimeoutForProvider(providerId) ==
  CASE providerId = "ollama" -> 30000
    [] providerId = "gemini" -> 15000
    [] OTHER -> 20000

IsLocal(prov) == prov = "ollama"

\* ------------------------------------------------------------- rate limit
\* a startRateLimitCooldown that never starts the countdown
StartRateLimitCooldownNever(prov, rl) == rl

\* a startRateLimitCooldown without the early return for the local provider
StartRateLimitCooldownAlways(prov, rl) ==
  [active |-> TRUE, remaining |-> COOLDOWN_SECONDS, intervals |-> rl.intervals + 1]

\* startRateLimitCooldown, on (active, remaining, intervals)
StartRateLimitCooldown(prov, rl) ==
  IF IsLocal(prov)
  THEN [rl EXCEPT !.active = FALSE, !.remaining = 0]
  ELSE [active |-> TRUE, remaining |-> COOLDOWN_SECONDS, intervals |-> rl.intervals + 1]

RateLimitState ==
  [active |-> isRateLimited, remaining |-> rateLimitCooldown, intervals |-> intervals]

SetRateLimitState(rl) ==
  /\ isRateLimited' = rl.active
  /\ rateLimitCooldown' = rl.remaining
  /\ intervals' = rl.intervals

\* an updater that stops at zero without clearing the flag
IntervalCallbackKeepsActive(rl) ==
  IF rl.remaining <= 1
  THEN [rl EXCEPT !.remaining = 0, !.intervals = @ - 1]
  ELSE [rl EXCEPT !.remaining = @ - 1]

\* setRateLimitCooldown(prev => ..) of the interval, with its clearInterval
IntervalCallback(rl) ==
  IF rl.remaining <= 1
  THEN [active |-> FALSE, remaining |-> 0, intervals |-> rl.intervals - 1]
  ELSE [rl EXCEPT !.remaining = @ - 1]

\* n callbacks, one after the other
RECURSIVE AfterCallbacks(_, _)
AfterCallbacks(rl, n) ==
  IF n = 0 THEN rl ELSE AfterCallbacks(IntervalCallback(rl), n - 1)

\* 1000 ms pass: every interval that is set runs its callback once
SecondPasses ==
  /\ intervals > 0
  /\ SetRateLimitState(AfterCallbacks(RateLimitState, intervals))
  /\ last' = [op |-> "second", s |-> 0, res |-> "", text |-> NoText]
  /\ UNCHANGED << messages, isLoading, isModelBusy, busyTimers, connectionStatus,
                  lastUserMessage, sendingRef, activeRequestRef, provider, memStore,
                  isModelLoading, isModelUnloading, isProviderBusy, subs, nsubs, nEvents >>
  /\ UNCHANGED trackerVars
  /\ UNCHANGED settingsVars

\* the callback of setInterval in startRateLimitCooldown
IntervalTick ==
  /\ intervals > 0
  /\ SetRateLimitState(IntervalCallback(RateLimitState))
  /\ last' = [op |-> "intervalTick", s |-> 0, res |-> "", text |-> NoText]
  /\ UNCHANGED << messages, isLoading, isModelBusy, busyTimers, connectionStatus,
                  lastUserMessage, sendingRef, activeRequestRef, provider, memStore,
                  isModelLoading, isModelUnloading, isProviderBusy, subs, nsubs, nEvents >>
  /\ UNCHANGED trackerVars
  /\ UNCHANGED settingsVars

\* the 3000 ms timeout armed by setBusy(true, ..)
BusyTimerFires ==
  /\ busyTimers > 0
  /\ busyTimers' = busyTimers - 1
  /\ isModelBusy' = FALSE
  /\ last' = Quiet
  /\ UNCHANGED << messages, isLoading, isRateLimited, rateLimitCooldown, intervals,
                  connectionStatus, lastUserMessage, sendingRef, activeRequestRef,
                  provider, memStore, isModelLoading, isModelUnloading, isProviderBusy,
                  subs, nsubs, nEvents >>
  /\ UNCHANGED trackerVars
  /\ UNCHANGED settingsVars

\* ------------------------------------------------------------ sendToAgent
\* The guards without the test of sendingRef.current (line 538 dropped).
GuardWithoutLock(text) ==
  IF activeRequestRef = text THEN "duplicate"
  ELSE IF isModelLoading \/ isModelUnloading \/ isProviderBusy THEN "modelBusy"
  ELSE IF isRateLimited /\ ~IsLocal(provider) THEN "rateLimited"
  ELSE "accepted"

\* The guards without the test of the model status flags (lines 548-551 dropped).
GuardWithoutModelStatus(text) ==
  IF sendingRef THEN "sending"
  ELSE IF activeRequestRef = text THEN "duplicate"
  ELSE IF isRateLimited /\ ~IsLocal(provider) THEN "rateLimited"
  ELSE "accepted"

\* The guards with the cooldown applied to the local provider too.
GuardWithoutLocalExemption(text) ==
  IF sendingRef THEN "sending"
  ELSE IF activeRequestRef = text THEN "duplicate"
  ELSE IF isModelLoading \/ isModelUnloading \/ isProviderBusy THEN "modelBusy"
  ELSE IF isRateLimited THEN "rateLimited"
  ELSE "accepted"

\* The guards of sendToAgent, in order: the guard that rejects, or "accepted".
Guard(text) ==
  IF sendingRef THEN "sending"
  ELSE IF activeRequestRef = text THEN "duplicate"
  ELSE IF isModelLoading \/ isModelUnloading \/ isProviderBusy THEN "modelBusy"
  ELSE IF isRateLimited /\ ~IsLocal(provider) THEN "rateLimited"
  ELSE "accepted"

\* a memory read that ignores options.disableAllMemoryRecall
LoadMemoryAlways(disableAllMemoryRecall) == memStore

\* memory loaded for the call: JSON.parse(raw) unless all recall is disabled
LoadMemory(disableAllMemoryRecall) ==
  IF memStore # NoMemory /\ ~disableAllMemoryRecall THEN memStore ELSE NoMemory

\* The closure of an accepted call: stream opened, safety timeout armed.
NewClosure(text, disableAllMemoryRecall) ==
  [ FreshClosure EXCEPT
      !.text = text, !.es = "open", !.fb = "armed",
      !.memory = LoadMemory(disableAllMemoryRecall),
      !.timeoutMs = GetTimeoutForProvider(ProviderOrDefault(provider)) ]

\* the parameters of streamChat that identify the request
StreamRequest(c) == [message |-> c.text, memoryToken |-> c.memory.token]

\* the body of the POST /chat of the fallback
FallbackRequest(c) ==
  [message |-> c.text, memoryToken |-> c.memory.token, memoryChunks |-> c.memory.chunks]

\* sendToAgent(text, options) called when the Conversation is `prev`
\* (retryLastMessage calls it after its own setMessages).
DoSend(prev, text, disableAllMemoryRecall, op) ==
  LET g == Guard(text) IN
  IF g = "accepted"
  THEN /\ nsubs < MaxSubs
       /\ messages' = Append(prev, UserMessage(text, nsubs + 1))
       /\ lastUserMessage' = text
       /\ isLoading' = TRUE
       /\ sendingRef' = TRUE
       /\ activeRequestRef' = text
       /\ nsubs' = nsubs + 1
       /\ subs' = [subs EXCEPT ![nsubs + 1] = NewClosure(text, disableAllMemoryRecall)]
       /\ last' = [op |-> op, s |-> nsubs + 1, res |-> g, text |-> text]
  ELSE /\ messages' = prev
       /\ last' = [op |-> op, s |-> 0, res |-> g, text |-> text]
       /\ UNCHANGED << lastUserMessage, isLoading, sendingRef, activeRequestRef, nsubs, subs >>

SendToAgent(text, disableAllMemoryRecall) ==
  /\ DoSend(messages, text, disableAllMemoryRecall, "sendToAgent")
  /\ UNCHANGED nEvents
  /\ UNCHANGED << isRateLimited, rateLimitCooldown, intervals, isModelBusy, busyTimers,
                  connectionStatus, provider, memStore, isModelLoading, isModelUnloading,
                  isProviderBusy >>
  /\ UNCHANGED trackerVars
  /\ UNCHANGED settingsVars

RetryLastMessage(disableAllMemoryRecall) ==
  /\ IF lastUserMessage # NoText /\ ~isLoading /\ ~isRateLimited
     THEN DoSend(SliceOffTwo(messages), lastUserMessage, disableAllMemoryRecall, "retry")
     ELSE /\ last' = [op |-> "retry", s |-> 0, res |-> "noop", text |-> NoText]
          /\ UNCHANGED << messages, lastUserMessage, isLoading, sendingRef,
                          activeRequestRef, nsubs, subs >>
  /\ UNCHANGED nEvents
  /\ UNCHANGED << isRateLimited, rateLimitCooldown, intervals, isModelBusy, busyTimers,
                  connectionStatus, provider, memStore, isModelLoading, isModelUnloading,
                  isProviderBusy >>
  /\ UNCHANGED trackerVars
  /\ UNCHANGED settingsVars

\* a clearMessages that keeps the remembered text
ClearConversationOnly ==
  /\ messages' = << >>
  /\ last' = [op |-> "clearMessages", s |-> 0, res |-> "", text |-> NoText]
  /\ UNCHANGED << lastUserMessage, isLoading, isRateLimited, rateLimitCooldown, intervals,
                  isModelBusy, busyTimers, connectionStatus, sendingRef, activeRequestRef,
                  provider, memStore, isModelLoading, isModelUnloading, isProviderBusy,
                  subs, nsubs, nEvents >>
  /\ UNCHANGED trackerVars
  /\ UNCHANGED settingsVars

ClearMessages ==
  /\ messages' = << >>
  /\ lastUserMessage' = NoText
  /\ last' = [op |-> "clearMessages", s |-> 0, res |-> "", text |-> NoText]
  /\ UNCHANGED << isLoading, isRateLimited, rateLimitCooldown, intervals, isModelBusy,
                  busyTimers, connectionStatus, sendingRef, activeRequestRef, provider,
                  memStore, isModelLoading, isModelUnloading, isProviderBusy, subs, nsubs, nEvents >>
  /\ UNCHANGED trackerVars
  /\ UNCHANGED settingsVars

\* importMemory(memoryToken, memoryChunks)
ImportMemory(m) ==
  /\ memStore' = IF m.token # None \/ m.chunks # None THEN m ELSE NoMemory
  /\ last' = Quiet
  /\ UNCHANGED << messages, isLoading, isRateLimited, rateLimitCooldown, intervals,
                  isModelBusy, busyTimers, connectionStatus, lastUserMessage, sendingRef,
                  activeRequestRef, provider, isModelLoading, isModelUnloading,
                  isProviderBusy, subs, nsubs, nEvents >>
  /\ UNCHANGED trackerVars
  /\ UNCHANGED settingsVars

\* the selection written to localStorage by the model selection form
SetProvider(p) ==
  /\ p # provider
  /\ provider' = p
  /\ last' = Quiet
  /\ UNCHANGED << messages, isLoading, isRateLimited, rateLimitCooldown, intervals,
                  isModelBusy, busyTimers, connectionStatus, lastUserMessage, sendingRef,
                  activeRequestRef, memStore, isModelLoading, isModelUnloading,
                  isProviderBusy, subs, nsubs, nEvents >>
  /\ UNCHANGED trackerVars
  /\ UNCHANGED settingsVars

\* Number of events the streams and status requests of a behaviour deliver to the
\* handlers.
MaxStreamEvents == 3

\* one more event is delivered
DeliverEvent == nEvents < MaxStreamEvents /\ nEvents' = nEvents + 1

ModelStates == { "IDLE", "LOADING", "UNLOADING", "LOADED", "ERROR" }

\* useState<ModelStatus | null>(null)
NoStatus == [providerId |-> "none", state |-> "none"]

\* the status synthesized without a request: state 'IDLE', 'Model is ready'
IdleStatus(providerId) == [providerId |-> providerId, state |-> "IDLE"]

\* an update that stores the status and leaves the two booleans as they are
SetStatusOnly(status) ==
  /\ modelStatus' = status
  /\ UNCHANGED << isModelLoading, isModelUnloading >>

\* setModelStatus(status); setIsModelLoading(..); setIsModelUnloading(..)
ApplyStatus(status) ==
  /\ modelStatus' = status
  /\ isModelLoading' = (status.state = "LOADING")
  /\ isModelUnloading' = (status.state = "UNLOADING")

\* the body of refreshModelStatus: the requests answer (state, busy), or one of
\* them throws
RefreshEffect(state, busy, ok) ==
  LET providerId == ProviderOrDefault(provider) IN
  IF providerId = "ollama" /\ ok
  THEN /\ ApplyStatus([providerId |-> providerId, state |-> state])
       /\ isProviderBusy' = busy
  ELSE /\ ApplyStatus(IdleStatus(providerId))
       /\ isProviderBusy' = FALSE

\* refreshModelStatus, given what the status and busy requests return
RefreshModelStatus(state, busy) ==
  /\ RefreshEffect(state, busy, TRUE)
  /\ last' = [op |-> "refresh", s |-> 0, res |-> "ok", text |-> NoText]
  /\ UNCHANGED << messages, isLoading, isRateLimited, rateLimitCooldown, intervals,
                  isModelBusy, busyTimers, connectionStatus, lastUserMessage, sendingRef,
                  activeRequestRef, provider, memStore, subs, nsubs, tracker, settingsCtx >>
  /\ DeliverEvent

\* refreshModelStatus when a request for the local provider throws
RefreshModelStatusFails ==
  /\ ProviderOrDefault(provider) = "ollama"
  /\ RefreshEffect("IDLE", FALSE, FALSE)
  /\ last' = [op |-> "refresh", s |-> 0, res |-> "failed", text |-> NoText]
  /\ UNCHANGED << messages, isLoading, isRateLimited, rateLimitCooldown, intervals,
                  isModelBusy, busyTimers, connectionStatus, lastUserMessage, sendingRef,
                  activeRequestRef, provider, memStore, subs, nsubs, tracker, settingsCtx >>
  /\ DeliverEvent

\* onStatus of the model status stream that setupStreaming subscribed to
ModelStatusEvent(state) ==
  /\ tracker.mode = "stream"
  /\ ApplyStatus([providerId |-> "ollama", state |-> state])
  /\ last' = [op |-> "statusEvent", s |-> 0, res |-> "", text |-> NoText]
  /\ UNCHANGED << messages, isLoading, isRateLimited, rateLimitCooldown, intervals,
                  isModelBusy, busyTimers, connectionStatus, lastUserMessage, sendingRef,
                  activeRequestRef, provider, memStore, isProviderBusy, subs, nsubs,
                  tracker, settingsCtx >>
  /\ DeliverEvent

\* pending setTimeout(setupPollingFallback, 5000) an unbounded run of stream
\* errors could pile up
MaxFallbackTimers == 1

\* setTimeout(setupPollingFallback, 5000), in seconds
FALLBACK_DELAY == 5

\* closeStream is null: no subscription and no poll loop; mode is what
\* closeStream closes, running counts the subscriptions and intervals that have
\* been started and not closed, timers holds the seconds each pending fallback
\* timeout still has to wait, oldest first, and mounted is false once the
\* effect's cleanup has run
NoTracking ==
  [mode |-> "none", pollMs |-> 0, running |-> 0, timers |-> << >>, mounted |-> TRUE]

\* if (closeStream) closeStream(): what still runs afterwards
Closed(t) == IF t.mode = "none" THEN t.running ELSE t.running - 1

\* state setters do nothing once the provider component is unmounted
StateDropped ==
  UNCHANGED << modelStatus, isModelLoading, isModelUnloading, isProviderBusy >>

\* what everything but the tracker leaves alone in a step of the tracker
OtherVarsOfTracker ==
  << messages, isLoading, isRateLimited, rateLimitCooldown, intervals, isModelBusy,
     busyTimers, connectionStatus, lastUserMessage, sendingRef, activeRequestRef,
     memStore, subs, nsubs, settingsCtx >>

\* pollStatus for a provider that is not the local one, or none
PollWithoutRequest(stored) ==
  IF stored = NoStoredProvider
  THEN UNCHANGED << modelStatus, isModelLoading, isModelUnloading, isProviderBusy >>
  ELSE /\ ApplyStatus(IdleStatus(stored))
       /\ isProviderBusy' = FALSE

\* a setupPollingFallback with one interval for every provider
SetupPollingFixedInterval(stored, timers) ==
  /\ tracker' = [tracker EXCEPT !.mode = "poll", !.pollMs = 15000,
                                !.running = Closed(tracker) + 1, !.timers = timers]
  /\ IF stored = "ollama" \/ ~tracker.mounted
     THEN StateDropped
     ELSE PollWithoutRequest(stored)

\* setupPollingFallback with `stored` in localStorage: the active subscription
\* or loop is closed, pollStatus runs once and the interval is set; for the local
\* provider the first pollStatus awaits refreshModelStatus
SetupPollingFallback(stored, timers) ==
  /\ tracker' = [tracker EXCEPT !.mode = "poll",
                                !.pollMs = IF stored = "ollama" THEN 10000 ELSE 15000,
                                !.running = Closed(tracker) + 1,
                                !.timers = timers]
  /\ IF stored = "ollama" \/ ~tracker.mounted
     THEN StateDropped
     ELSE PollWithoutRequest(stored)

\* setupStreaming with `stored` in localStorage
SetupStreaming(stored, timers) ==
  IF stored = NoStoredProvider
  THEN /\ tracker' = [NoTracking EXCEPT !.running = Closed(tracker), !.timers = timers]
       /\ UNCHANGED << modelStatus, isModelLoading, isModelUnloading, isProviderBusy >>
  ELSE IF stored = "ollama"
  THEN /\ tracker' = [tracker EXCEPT !.mode = "stream", !.pollMs = 0,
                                     !.running = Closed(tracker) + 1, !.timers = timers]
       /\ UNCHANGED << modelStatus, isModelLoading, isModelUnloading, isProviderBusy >>
  ELSE SetupPollingFallback(stored, timers)

\* handleStorageChange for key currentProviderId or currentModelId: another
\* window stored q (q is the stored provider when the model changed)
StorageChange(q) ==
  /\ tracker.mounted
  /\ provider' = q
  /\ SetupStreaming(q, tracker.timers)
  /\ last' = [op |-> "storage", s |-> 0, res |-> "", text |-> NoText]
  /\ UNCHANGED OtherVarsOfTracker
  /\ DeliverEvent

\* onError of the model status stream
StatusStreamError ==
  /\ tracker.mode = "stream"
  /\ Len(tracker.timers) < MaxFallbackTimers
  /\ tracker' = [tracker EXCEPT !.timers = Append(@, FALLBACK_DELAY)]
  /\ last' = [op |-> "statusError", s |-> 0, res |-> "", text |-> NoText]
  /\ UNCHANGED << provider, modelStatus, isModelLoading, isModelUnloading, isProviderBusy >>
  /\ UNCHANGED OtherVarsOfTracker
  /\ DeliverEvent

\* the timeout of 5000 ms set by onError runs setupPollingFallback
PollingFallbackTimerFires ==
  /\ tracker.timers # << >>
  /\ Head(tracker.timers) = 0
  /\ SetupPollingFallback(provider, Tail(tracker.timers))
  /\ last' = [op |-> "pollingFallback", s |-> 0, res |-> "", text |-> NoText]
  /\ UNCHANGED provider
  /\ UNCHANGED OtherVarsOfTracker
  /\ UNCHANGED nEvents

\* a second passes for the pending fallback timeouts; a timeout that is due runs
\* before the next second
FallbackDelayPasses ==
  /\ tracker.timers # << >>
  /\ Head(tracker.timers) > 0
  /\ tracker' = [tracker EXCEPT !.timers = [i \in DOMAIN @ |-> @[i] - 1]]
  /\ last' = [op |-> "fallbackDelay", s |-> 0, res |-> "", text |-> NoText]
  /\ UNCHANGED << provider, modelStatus, isModelLoading, isModelUnloading, isProviderBusy >>
  /\ UNCHANGED OtherVarsOfTracker
  /\ UNCHANGED nEvents

\* the cleanup of the tracker effect: the active subscription or loop is closed
\* and the storage listener removed; pending timeouts are not cleared
Unmount ==
  /\ tracker.mounted
  /\ tracker' = [tracker EXCEPT !.mode = "none", !.pollMs = 0,
                                !.running = Closed(tracker), !.mounted = FALSE]
  /\ last' = [op |-> "unmount", s |-> 0, res |-> "", text |-> NoText]
  /\ UNCHANGED << provider, modelStatus, isModelLoading, isModelUnloading, isProviderBusy >>
  /\ UNCHANGED OtherVarsOfTracker
  /\ UNCHANGED nEvents

\* the interval of the poll loop runs pollStatus; for the local provider it awaits
\* refreshModelStatus, whose requests answer (state, busy) or throw
PollStatus(state, busy, ok) ==
  /\ tracker.mode = "poll"
  /\ IF ~tracker.mounted THEN StateDropped
     ELSE IF provider = "ollama" THEN RefreshEffect(state, busy, ok)
     ELSE PollWithoutRequest(provider)
  /\ last' = [op |-> "poll", s |-> 0, res |-> "", text |-> NoText]
  /\ UNCHANGED << provider, tracker >>
  /\ UNCHANGED OtherVarsOfTracker
  /\ DeliverEvent

\* ---------------------------------------------------------- stream events
\* bounds on the timers an unbounded run of events could pile up
MaxIntervals == 2
MaxBusyTimers == 1

Open(s) == s <= nsubs /\ subs[s].es = "open"

OtherVarsOfEvent ==
  << lastUserMessage, provider, isModelLoading, isModelUnloading, isProviderBusy, nsubs,
     modelStatus, tracker, settingsCtx >>

\* onEvent({type: 'agent', data: {message: statusText}})
AgentEvent(s, statusText) ==
  LET c == subs[s] IN
  /\ Open(s)
  /\ IF ~c.indicatorShown /\ c.indicatorTimer = NoTimer
     THEN /\ subs' = [subs EXCEPT ![s].indicatorTimer = DEBOUNCE_MS,
                                  ![s].timerStatus = statusText,
                                  ![s].indEpoch = nsubs]
          /\ UNCHANGED messages
     ELSE IF c.indicatorShown
          THEN /\ messages' = UpdateIndicator(messages, statusText)
               /\ UNCHANGED subs
          ELSE UNCHANGED << messages, subs >>
  /\ last' = [op |-> "agent", s |-> s, res |-> "", text |-> NoText]
  /\ UNCHANGED << isLoading, isRateLimited, rateLimitCooldown, intervals, isModelBusy,
                  busyTimers, connectionStatus, sendingRef, activeRequestRef, memStore >>
  /\ UNCHANGED OtherVarsOfEvent
  /\ DeliverEvent

\* the debounce timeout of the first `agent` event
IndicatorTimerFires(s) ==
  LET c == subs[s] IN
  /\ s <= nsubs
  /\ c.indicatorTimer = 0
  /\ messages' = ShowIndicator(messages, c.timerStatus, s)
  /\ subs' = [subs EXCEPT ![s].indicatorShown = TRUE,
                          ![s].shownElapsed = 0,
                          ![s].indicatorTimer = NoTimer,
                          ![s].timerStatus = NoText,
                          ![s].indEpoch = 0]
  /\ last' = [op |-> "indicatorTimer", s |-> s, res |-> "", text |-> NoText]
  /\ UNCHANGED << isLoading, isRateLimited, rateLimitCooldown, intervals, isModelBusy,
                  busyTimers, connectionStatus, sendingRef, activeRequestRef, memStore >>
  /\ UNCHANGED OtherVarsOfEvent
  /\ UNCHANGED nEvents

\* a capture that stores the metadata of every response
CaptureMemoryAlways(resp, store) == resp.metadata

\* the memory a response asks to persist: localStorage.setItem(memKey, ..)
CaptureMemory(resp, store) ==
  IF resp.metadata.token # None \/ resp.metadata.chunks # None
  THEN resp.metadata
  ELSE store

\* indicatorShown ? (Date.now() - indicatorShownAt) : 0
Elapsed(c) == IF c.indicatorShown THEN c.shownElapsed ELSE 0

\* the answer handler with `replaceFinal()` called at once in every case
NeverDelayed(c) == FALSE

\* if (indicatorShown && elapsed < minVisible)
Delayed(c) == c.indicatorShown /\ Elapsed(c) < MIN_VISIBLE_MS

\* onEvent({type: 'answer', data: resp}), then es.close()
AnswerEvent(s, resp) ==
  LET c == subs[s]
      agentMessage == AgentMessage(resp, s)
      elapsed == Elapsed(c)
      delayed == Delayed(c)
  IN
  /\ Open(s)
  /\ resp.cached \/ IsLocal(provider) \/ intervals < MaxIntervals
  /\ isModelBusy' = FALSE
  /\ IF delayed
     THEN /\ UNCHANGED messages
          /\ subs' = [subs EXCEPT ![s].done = TRUE, ![s].es = "closed",
                                  ![s].indicatorTimer = NoTimer,
                                  ![s].timerStatus = NoText, ![s].indEpoch = 0,
                                  ![s].finalTimer = MIN_VISIBLE_MS - elapsed,
                                  ![s].finalMsg = agentMessage,
                                  ![s].finEpoch = nsubs]
     ELSE /\ messages' = ReplaceFinal(messages, agentMessage)
          /\ subs' = [subs EXCEPT ![s].done = TRUE, ![s].es = "closed",
                                  ![s].indicatorTimer = NoTimer,
                                  ![s].timerStatus = NoText, ![s].indEpoch = 0,
                                  ![s].nStreamCommits = Bump(c.nStreamCommits)]
  /\ connectionStatus' = "online"
  /\ isLoading' = FALSE
  /\ sendingRef' = FALSE
  /\ activeRequestRef' = NoText
  /\ SetRateLimitState(IF ~resp.cached
                       THEN StartRateLimitCooldown(provider, RateLimitState)
                       ELSE RateLimitState)
  /\ memStore' = CaptureMemory(resp, memStore)
  /\ last' = [op |-> "answer", s |-> s, res |-> IF delayed THEN "delayed" ELSE "replaced", text |-> NoText]
  /\ UNCHANGED busyTimers
  /\ UNCHANGED OtherVarsOfEvent
  /\ DeliverEvent

\* setTimeout(replaceFinal, minVisible - elapsed)
ReplaceFinalFires(s) ==
  LET c == subs[s] IN
  /\ s <= nsubs
  /\ c.finalTimer = 0
  /\ messages' = ReplaceFinal(messages, c.finalMsg)
  /\ subs' = [subs EXCEPT ![s].finalTimer = NoTimer, ![s].finalMsg = NoMessage,
                          ![s].finEpoch = 0,
                          ![s].nStreamCommits = Bump(c.nStreamCommits)]
  /\ last' = [op |-> "replaceFinal", s |-> s, res |-> "", text |-> NoText]
  /\ UNCHANGED << isLoading, isRateLimited, rateLimitCooldown, intervals, isModelBusy,
                  busyTimers, connectionStatus, sendingRef, activeRequestRef, memStore >>
  /\ UNCHANGED OtherVarsOfEvent
  /\ UNCHANGED nEvents

\* a classification that looks at the connection-error flag first
ClassifyErrorConnectionFirst(msg, isConnectionError, prov) ==
  IF isConnectionError THEN "connection"
  ELSE IF IncludesRateLimit(msg) /\ IsLocal(prov) THEN "localRateLimit"
  ELSE IF IncludesRateLimit(msg) THEN "rateLimit"
  ELSE "provider"

\* a classification that ignores the connection-error flag
ClassifyErrorNoConnection(msg, isConnectionError, prov) ==
  IF IncludesRateLimit(msg) /\ IsLocal(prov) THEN "localRateLimit"
  ELSE IF IncludesRateLimit(msg) THEN "rateLimit"
  ELSE "provider"

\* a classification without the branch for the local provider
ClassifyErrorNoLocal(msg, isConnectionError, prov) ==
  IF IncludesRateLimit(msg) THEN "rateLimit"
  ELSE IF isConnectionError THEN "connection"
  ELSE "provider"

\* the branch the `error` handler takes
ClassifyError(msg, isConnectionError, prov) ==
  IF IncludesRateLimit(msg) /\ IsLocal(prov) THEN "localRateLimit"
  ELSE IF IncludesRateLimit(msg) THEN "rateLimit"
  ELSE IF isConnectionError THEN "connection"
  ELSE "provider"

\* an end of the `error` handler that clears the flag and keeps the lock
ClearFlagOnly ==
  /\ isLoading' = FALSE
  /\ UNCHANGED << sendingRef, activeRequestRef >>

\* the end of the `error` handler, after the four branches
ReleaseAfterError ==
  /\ isLoading' = FALSE
  /\ sendingRef' = FALSE
  /\ activeRequestRef' = NoText

\* onEvent({type: 'error', data: {message: msg, isConnectionError}}): the
\* `provider-error` listener leaves the EventSource open, the `error` listener closes it
ErrorEvent(s, msg, isConnectionError, fatal) ==
  LET c == subs[s]
      class == ClassifyError(msg, isConnectionError, provider)
      commits == class \in {"rateLimit", "provider"}
  IN
  /\ Open(s)
  /\ class = "rateLimit" => intervals < MaxIntervals
  /\ class = "localRateLimit" => busyTimers < MaxBusyTimers
  /\ subs' = [subs EXCEPT ![s].done = TRUE,
                          ![s].es = IF fatal THEN "closed" ELSE "open",
                          ![s].indicatorTimer = NoTimer,
                          ![s].timerStatus = NoText, ![s].indEpoch = 0,
                          ![s].nStreamCommits =
                             IF commits THEN Bump(c.nStreamCommits) ELSE c.nStreamCommits]
  /\ CASE class = "localRateLimit" ->
            /\ isModelBusy' = TRUE
            /\ busyTimers' = busyTimers + 1
            /\ connectionStatus' = "online"
            /\ UNCHANGED << messages, isRateLimited, rateLimitCooldown, intervals >>
       [] class = "rateLimit" ->
            /\ SetRateLimitState(StartRateLimitCooldown(provider, RateLimitState))
            /\ messages' = ReplaceTrailing(messages, ErrorMessage(RATE_LIMIT_TEXT, s))
            /\ connectionStatus' = "online"
            /\ UNCHANGED << isModelBusy, busyTimers >>
       [] class = "connection" ->
            /\ connectionStatus' = "offline"
            /\ UNCHANGED << messages, isRateLimited, rateLimitCooldown, intervals,
                            isModelBusy, busyTimers >>
       [] class = "provider" ->
            /\ messages' = ReplaceTrailing(messages, ErrorMessage(msg, s))
            /\ UNCHANGED << connectionStatus, isRateLimited, rateLimitCooldown, intervals,
                            isModelBusy, busyTimers >>
  /\ ReleaseAfterError
  /\ last' = [op |-> "error", s |-> s, res |-> class, text |-> NoText]
  /\ UNCHANGED memStore
  /\ UNCHANGED OtherVarsOfEvent
  /\ DeliverEvent

\* The connection fails or ends without an event the handler can parse:
\* es.onerror (and the `error` listener, whose JSON.parse throws) close the EventSource.
StreamDrop(s) ==
  /\ Open(s)
  /\ subs' = [subs EXCEPT ![s].es = "closed"]
  /\ last' = Quiet
  /\ UNCHANGED controllerVars
  /\ UNCHANGED OtherVarsOfEvent
  /\ UNCHANGED nEvents

\* --------------------------------------------------------------- fallback
\* A short timer (at most MIN_VISIBLE_MS) armed before submission s was accepted
\* is due before the safety timeout of s (at least 15000 ms).
ShortTimerArmedBefore(s) ==
  \E r \in SubIds :
     \/ subs[r].indicatorTimer # NoTimer /\ subs[r].indEpoch < s
     \/ subs[r].finalTimer # NoTimer /\ subs[r].finEpoch < s

\* the guard of the safety timeout without its test of activeRequestRef.current
FallbackGuardDoneOnly(c) == ~c.done

\* `if (!done && activeRequestRef.current === text)` of the safety timeout
FallbackGuard(c) == ~c.done /\ activeRequestRef = c.text

\* setTimeout(async () => {..}, timeoutMs), up to the await of sendChatMessage
FallbackTimerFires(s) ==
  LET c == subs[s] IN
  /\ s <= nsubs
  /\ c.fb = "armed"
  /\ ~ShortTimerArmedBefore(s)
  /\ IF FallbackGuard(c)
     THEN /\ subs' = [subs EXCEPT ![s].fb = "requesting", ![s].nFallback = Bump(c.nFallback)]
          /\ last' = [op |-> "fallbackTimer", s |-> s, res |-> "request", text |-> NoText]
     ELSE /\ subs' = [subs EXCEPT ![s].fb = "spent"]
          /\ last' = [op |-> "fallbackTimer", s |-> s, res |-> "skip", text |-> NoText]
  /\ UNCHANGED controllerVars
  /\ UNCHANGED OtherVarsOfEvent
  /\ UNCHANGED nEvents

NoResponse == [message |-> NoText, cached |-> FALSE, metadata |-> NoMemory]

\* sendChatMessage: the response it resolves to, or ok = FALSE when it throws
SendChatMessage(http, prov) ==
  IF http.status = 200 THEN [ok |-> TRUE, data |-> http.data]
  ELSE IF http.status = 429 /\ IsLocal(prov)
       THEN [ok |-> TRUE,
             data |-> [message |-> http.data.message, cached |-> FALSE,
                       metadata |-> NoMemory]]
       ELSE [ok |-> FALSE, data |-> NoResponse]

\* the safety timeout after the await: try / catch / finally
FallbackResponse(s, http) ==
  LET c == subs[s]
      r == SendChatMessage(http, provider)
      cools == r.ok /\ ~r.data.cached /\ ~IsLocal(provider)
  IN
  /\ s <= nsubs
  /\ c.fb = "requesting"
  /\ cools => intervals < MaxIntervals
  /\ IF r.ok
     THEN /\ messages' = FallbackReplace(messages, AgentMessage(r.data, s))
          /\ connectionStatus' = "online"
          /\ isModelBusy' = FALSE
          /\ isLoading' = FALSE
          /\ activeRequestRef' = NoText
          /\ SetRateLimitState(IF cools
                               THEN StartRateLimitCooldown(provider, RateLimitState)
                               ELSE RateLimitState)
          /\ memStore' = CaptureMemory(r.data, memStore)
          /\ subs' = [subs EXCEPT ![s].fb = "spent", ![s].es = "closed",
                                  ![s].nFallbackCommits = Bump(c.nFallbackCommits)]
     ELSE /\ subs' = [subs EXCEPT ![s].fb = "spent", ![s].es = "closed"]
          /\ UNCHANGED << messages, connectionStatus, isModelBusy, isLoading,
                          activeRequestRef, isRateLimited, rateLimitCooldown, intervals,
                          memStore >>
  /\ last' = [op |-> "fallbackResponse", s |-> s, res |-> IF r.ok THEN "ok" ELSE "failed", text |-> NoText]
  /\ UNCHANGED << sendingRef, busyTimers >>
  /\ UNCHANGED OtherVarsOfEvent
  /\ UNCHANGED nEvents

\* ------------------------------------------------------------------- time
ClockMatters(c) ==
  \/ c.indicatorTimer > 0
  \/ c.finalTimer > 0
  \/ c.indicatorShown /\ c.es = "open" /\ c.shownElapsed < MIN_VISIBLE_MS

Advance(c) ==
  [ c EXCEPT
      !.indicatorTimer = IF @ > 0 THEN @ - TimeStep ELSE @,
      !.finalTimer = IF @ > 0 THEN @ - TimeStep ELSE @,
      !.shownElapsed =
         IF c.indicatorShown /\ (c.es = "open" \/ c.finalTimer # NoTimer) /\ @ < MIN_VISIBLE_MS
         THEN @ + TimeStep ELSE @ ]

\* TimeStep milliseconds pass; a timeout that is due runs first
Tick ==
  /\ \A s \in SubIds : subs[s].indicatorTimer # 0 /\ subs[s].finalTimer # 0
  /\ \E s \in SubIds : ClockMatters(subs[s])
  /\ subs' = [s \in SubIds |-> Advance(subs[s])]
  /\ last' = Quiet
  /\ UNCHANGED controllerVars
  /\ UNCHANGED OtherVarsOfEvent
  /\ UNCHANGED nEvents

\* --------------------------------------------------------------- settings
\* ChatSettings are objects; three of their keys stand for all: a display switch
\* with default true, a prompt text with default '', and unloadAfterCall, which
\* the settings panel toggles and defaultSettings does not hold.
defaultSettings == [displayTimestamp |-> TRUE, systemPrompt |-> ""]

\* {}
EmptyObject == [k \in {} |-> TRUE]

\* { ...base, ...over }
Spread(base, over) ==
  [k \in DOMAIN base \cup DOMAIN over |-> IF k \in DOMAIN over THEN over[k] ELSE base[k]]

\* localStorage.getItem('chatSettings'): null, a text JSON.parse rejects, or the
\* JSON text of an object
NothingStored == [kind |-> "absent", fields |-> EmptyObject]
Unparsable == [kind |-> "corrupt", fields |-> EmptyObject]

\* JSON.stringify(settings): the values are booleans and strings, which the text keeps
Stringify(settings) == [kind |-> "json", fields |-> settings]

\* JSON.parse(savedSettings): ok is false when it throws
Parse(saved) == [ok |-> saved.kind = "json", value |-> saved.fields]

\* what a page can find stored: nothing, a damaged text, objects saved by this or an
\* earlier version (some keys missing)
SavedObjects ==
  { EmptyObject,
    [displayTimestamp |-> FALSE],
    [systemPrompt |-> "p"],
    [displayTimestamp |-> FALSE, systemPrompt |-> "p", unloadAfterCall |-> TRUE] }

SavedValues == { NothingStored, Unparsable } \cup { Stringify(o) : o \in SavedObjects }

\* the settings the load effect leaves in the state
LoadSettings(saved) ==
  IF saved.kind = "absent" THEN defaultSettings
  ELSE IF Parse(saved).ok THEN Spread(defaultSettings, Parse(saved).value)
  ELSE defaultSettings

\* a save effect without the test of isInitialized
SaveUngated(settings, isInitialized, saved) == Stringify(settings)

\* the save effect of a render with (settings, isInitialized): what is stored after it
SaveEffect(settings, isInitialized, saved) ==
  IF isInitialized THEN Stringify(settings) ELSE saved

\* no settings were in effect before: the page was never reloaded
NotReloaded == [known |-> FALSE, settings |-> defaultSettings]

\* The SettingsProvider after its first render, with `saved` in localStorage:
\*   phase    "constructed" (effects of the first commit pending), "loaded" (they
\*            have run, the render they scheduled is pending), "ready"
\*   pending  pendingTextUpdatesRef.current;  timer  debounceTimeoutRef.current is set
\*   before   history: the settings in effect when the page was last reloaded
SettingsConstructed(saved) ==
  [ phase |-> "constructed", settings |-> defaultSettings, isInitialized |-> FALSE,
    stored |-> saved, pending |-> EmptyObject, timer |-> FALSE, before |-> NotReloaded ]

\* what a step of the SettingsProvider leaves alone
OtherVarsOfSettings ==
  << messages, isLoading, isRateLimited, rateLimitCooldown, intervals, isModelBusy,
     busyTimers, connectionStatus, lastUserMessage, sendingRef, activeRequestRef,
     provider, memStore, isModelLoading, isModelUnloading, isProviderBusy, subs,
     nsubs, nEvents, modelStatus, tracker >>

SettingsStep(op) ==
  /\ last' = [op |-> op, s |-> 0, res |-> "", text |-> NoText]
  /\ UNCHANGED OtherVarsOfSettings

\* The effects of the first commit, in their order: the load effect sets the
\* state, the save effect runs with the values of the first render.
SettingsMountEffects ==
  LET c == settingsCtx IN
  /\ c.phase = "constructed"
  /\ settingsCtx' = [c EXCEPT !.phase = "loaded",
                              !.settings = LoadSettings(c.stored),
                              !.isInitialized = TRUE,
                              !.stored = SaveEffect(c.settings, c.isInitialized, c.stored)]
  /\ SettingsStep("settingsMount")

\* The render the load effect scheduled: isInitialized has changed, the save
\* effect runs again.
SettingsRerender ==
  LET c == settingsCtx IN
  /\ c.phase = "loaded"
  /\ settingsCtx' = [c EXCEPT !.phase = "ready",
                              !.stored = SaveEffect(c.settings, c.isInitialized, c.stored)]
  /\ SettingsStep("settingsRender")

\* setSettings(next), the render and its save effect
SetSettings(c, next) ==
  [c EXCEPT !.settings = next, !.stored = SaveEffect(next, c.isInitialized, c.stored)]

\* what the panels pass to the update operations
SettingsUpdates ==
  { [displayTimestamp |-> TRUE], [displayTimestamp |-> FALSE], [unloadAfterCall |-> TRUE],
    [unloadAfterCall |-> FALSE] }
TextUpdates == { [systemPrompt |-> ""], [systemPrompt |-> "p"] }

\* updateSettings(newSettings)
UpdateSettings(newSettings) ==
  LET c == settingsCtx IN
  /\ c.phase = "ready"
  /\ settingsCtx' = SetSettings(c, Spread(c.settings, newSettings))
  /\ SettingsStep("updateSettings")

\* updateTextSettings(newSettings): merged into the pending updates, timeout set anew
UpdateTextSettings(newSettings) ==
  LET c == settingsCtx IN
  /\ c.phase = "ready"
  /\ settingsCtx' = [c EXCEPT !.pending = Spread(c.pending, newSettings), !.timer = TRUE]
  /\ SettingsStep("updateTextSettings")

\* the timeout of updateTextSettings
TextDebounceFires ==
  LET c == settingsCtx IN
  /\ c.timer
  /\ settingsCtx' = [SetSettings(c, Spread(c.settings, c.pending))
                       EXCEPT !.pending = EmptyObject, !.timer = FALSE]
  /\ SettingsStep("textDebounce")

\* updateTextSettingsImmediate(newSettings)
UpdateTextSettingsImmediate(newSettings) ==
  LET c == settingsCtx IN
  /\ c.phase = "ready"
  /\ settingsCtx' = [SetSettings(c, Spread(c.settings, Spread(c.pending, newSettings)))
                       EXCEPT !.pending = EmptyObject, !.timer = FALSE]
  /\ SettingsStep("updateTextImmediate")

\* resetSettings()
ResetSettings ==
  LET c == settingsCtx IN
  /\ c.phase = "ready"
  /\ settingsCtx' = SetSettings(c, defaultSettings)
  /\ SettingsStep("resetSettings")

\* The page is reloaded: state, refs and timers are gone, localStorage stays.
Reload ==
  LET c == settingsCtx IN
  /\ settingsCtx' = [SettingsConstructed(c.stored) EXCEPT
                       !.before = IF c.phase = "constructed" THEN c.before
                                  ELSE [known |-> TRUE, settings |-> c.settings]]
  /\ SettingsStep("reload")

\* ------------------------------------------------------------------- spec
\* The state after AppProvider is constructed, whatever the stored selection is.
Constructed ==
  /\ messages = << >>
  /\ isLoading = FALSE
  /\ isRateLimited = FALSE
  /\ rateLimitCooldown = 0
  /\ intervals = 0
  /\ isModelBusy = FALSE
  /\ busyTimers = 0
  /\ connectionStatus = "online"
  /\ lastUserMessage = NoText
  /\ sendingRef = FALSE
  /\ activeRequestRef = NoText
  /\ memStore = NoMemory
  /\ isModelLoading = FALSE
  /\ isModelUnloading = FALSE
  /\ isProviderBusy = FALSE
  /\ subs = [s \in SubIds |-> FreshClosure]
  /\ nsubs = 0
  /\ nEvents = 0
  /\ last = [op |-> "init", s |-> 0, res |-> "", text |-> NoText]

\* The tracker effect has run setupStreaming with the stored provider.
Mounted ==
  /\ tracker = IF provider = NoStoredProvider THEN NoTracking
               ELSE IF provider = "ollama"
               THEN [NoTracking EXCEPT !.mode = "stream", !.running = 1]
               ELSE [NoTracking EXCEPT !.mode = "poll", !.pollMs = 15000, !.running = 1]
  /\ modelStatus = IF provider \in { NoStoredProvider, "ollama" }
                   THEN NoStatus ELSE IdleStatus(provider)

Init == Constructed /\ provider = DefaultProvider /\ Mounted
  /\ settingsCtx = SettingsConstructed(NothingStored)

\* Inputs of Spec: responses served from the cache and errors that are not rate
\* limits, so that no cooldown keeps the second submission from being accepted.
CachedResponses == { r \in ChatResponses : r.cached /\ r.metadata = NoMemory }
PlainErrors == { m \in ErrorTexts : ~IncludesRateLimit(m) }
PlainStatusTexts == { <<"Thinking">> }
PlainHttpOutcomes ==
  { h \in HttpOutcomes : h.status = 200 => h.data \in CachedResponses }

Submit == \E t \in UserTexts : SendToAgent(t, FALSE)

StreamEvent ==
  \/ \E s \in SubIds, st \in PlainStatusTexts : AgentEvent(s, st)
  \/ \E s \in SubIds, r \in CachedResponses : AnswerEvent(s, r)
  \/ \E s \in SubIds, m \in PlainErrors, ce \in BOOLEAN, f \in BOOLEAN : ErrorEvent(s, m, ce, f)

TimerEvent ==
  \/ \E s \in SubIds : StreamDrop(s)
  \/ \E s \in SubIds : IndicatorTimerFires(s)
  \/ \E s \in SubIds : ReplaceFinalFires(s)
  \/ \E s \in SubIds : FallbackTimerFires(s)
  \/ \E s \in SubIds, h \in PlainHttpOutcomes : FallbackResponse(s, h)
  \/ Tick

Next == Submit \/ StreamEvent \/ TimerEvent

\* The session controller with the default provider: up to MaxSubs submissions,
\* their streams, timers and fallbacks, in every interleaving.
Spec == Init /\ [][Next]_vars

\* A session in which the guards of sendToAgent meet every state that rejects: any
\* stored provider, model status changes, responses that start the cooldown and
\* errors of every class. The selection stays as stored and less than a second
\* passes after a cooldown starts.
InitGuards == Constructed /\ provider \in Providers /\ Mounted
  /\ settingsCtx = SettingsConstructed(NothingStored)

PlainResponses == { r \in ChatResponses : r.metadata = NoMemory }

SubmitWithOptions == \E t \in UserTexts, o \in CallOptions : SendToAgent(t, o)

ModelStatusChange ==
  \/ \E st \in ModelStates : ModelStatusEvent(st)
  \/ \E st \in ModelStates, busy \in BOOLEAN : RefreshModelStatus(st, busy)

StreamOutcome ==
  \/ \E s \in SubIds, r \in PlainResponses : AnswerEvent(s, r)
  \/ \E s \in SubIds, m \in ErrorTexts, ce \in BOOLEAN, f \in BOOLEAN : ErrorEvent(s, m, ce, f)
  \/ BusyTimerFires

NextGuards == SubmitWithOptions \/ ModelStatusChange \/ StreamOutcome

SpecGuards == InitGuards /\ [][NextGuards]_vars

\* The timeout of setBusy is a browser timer: once set it runs.
SpecGuardsFair == SpecGuards /\ WF_vars(BusyTimerFires)

\* A session in which the selection changes while a cooldown runs: any stored
\* provider or none, status refreshes, responses and errors of every class.
InitSwitch == Constructed /\ provider \in StoredProviders /\ Mounted
  /\ settingsCtx = SettingsConstructed(NothingStored)

SubmitHello == \E o \in CallOptions : SendToAgent(<<"hello">>, o)

SelectionChange ==
  \/ \E q \in Providers : SetProvider(q)
  \/ \E st \in ModelStates, busy \in BOOLEAN : RefreshModelStatus(st, busy)

\* terminal events of streams that the `error` listener closes
ClosingOutcome ==
  \/ \E s \in SubIds, r \in PlainResponses : AnswerEvent(s, r)
  \/ \E s \in SubIds, m \in ErrorTexts, ce \in BOOLEAN : ErrorEvent(s, m, ce, TRUE)
  \/ BusyTimerFires

NextSwitch == SubmitHello \/ SelectionChange \/ ClosingOutcome

SpecSwitch == InitSwitch /\ [][NextSwitch]_vars

\* A session of submissions that are answered on their streams, with progress
\* notices before the answer: a remote or the local provider, answers cached or not.
InitAnswer == Constructed /\ provider \in { "gemini", "ollama" } /\ Mounted
  /\ settingsCtx = SettingsConstructed(NothingStored)

Progress ==
  \/ \E s \in SubIds, st \in StatusTexts : AgentEvent(s, st)
  \/ \E s \in SubIds : IndicatorTimerFires(s)

Answer ==
  \/ \E s \in SubIds, r \in PlainResponses : AnswerEvent(s, r)
  \/ \E s \in SubIds : ReplaceFinalFires(s)

NextAnswer == SubmitHello \/ Progress \/ Answer \/ Tick

SpecAnswer == InitAnswer /\ [][NextAnswer]_vars

\* A session with the retry button: submissions, retries, clearing, cached
\* answers and errors that are not rate-limit errors, so that no cooldown
\* disables the retry.
Retry == \E o \in CallOptions : RetryLastMessage(o)

Outcome ==
  \/ \E s \in SubIds, r \in CachedResponses : AnswerEvent(s, r)
  \/ \E s \in SubIds, m \in PlainErrors, ce \in BOOLEAN : ErrorEvent(s, m, ce, TRUE)

NextRetry == Submit \/ Retry \/ ClearMessages \/ Outcome

SpecRetry == Init /\ [][NextRetry]_vars

\* The session with the retry button while the model status changes: any stored
\* provider, status events and refreshes.
NextRetryStatus == Submit \/ Retry \/ Outcome \/ ModelStatusChange

SpecRetryStatus == InitGuards /\ [][NextRetryStatus]_vars

\* The same session with the safety timeout and its fallback request.
Fallback ==
  \/ \E s \in SubIds : FallbackTimerFires(s)
  \/ \E s \in SubIds, h \in PlainHttpOutcomes : FallbackResponse(s, h)

NextRetryFallback == Submit \/ Retry \/ ClearMessages \/ Outcome \/ Fallback

SpecRetryFallback == Init /\ [][NextRetryFallback]_vars

\* A session around the Rate Limit Timer: the selection moves between the
\* built-in remote provider and the local one, answers come cached or not,
\* errors are rate-limit errors, and the callbacks of the intervals run.
InitCooldown == Constructed /\ provider \in { "gemini", "ollama" } /\ Mounted
  /\ settingsCtx = SettingsConstructed(NothingStored)

Switch == \E q \in { "gemini", "ollama" } : SetProvider(q)

RateLimitErrors == { m \in ErrorTexts : IncludesRateLimit(m) }

Limited ==
  \/ \E s \in SubIds, r \in PlainResponses : AnswerEvent(s, r)
  \/ \E s \in SubIds, m \in RateLimitErrors, f \in BOOLEAN : ErrorEvent(s, m, FALSE, f)

NextCooldown == SubmitHello \/ Switch \/ Limited \/ IntervalTick

SpecCooldown == InitCooldown /\ [][NextCooldown]_vars

\* The same session measured in seconds.
NextCountdown == SubmitHello \/ Switch \/ Limited \/ SecondPasses

SpecCountdown == InitCooldown /\ [][NextCountdown]_vars

\* A session around the safety timeout: any stored provider or none, the
\* selection changes while submissions are in flight, `agent` events arrive,
\* and the timeout fires and falls back.
SelectProvider == \E q \in Providers : SetProvider(q)

StreamActivity ==
  \/ \E s \in SubIds, st \in PlainStatusTexts : AgentEvent(s, st)
  \/ \E s \in SubIds, r \in CachedResponses : AnswerEvent(s, r)

NextTimeout == SubmitHello \/ SelectProvider \/ StreamActivity \/ Fallback

SpecTimeout == InitSwitch /\ [][NextTimeout]_vars

\* A session around the memory record: memory is imported and removed,
\* submissions are made with and without recall, answers and fallback responses
\* carry memory or none, errors and `agent` events arrive.
ImportPayloads == { NoMemory, [token |-> "m2", chunks |-> "c2"] }

MemoryResponses == { r \in ChatResponses : r.cached }

MemoryHttpOutcomes == { h \in HttpOutcomes : h.status \in {200, 500} /\ (h.status = 200 => h.data.cached) }

Import == \E m \in ImportPayloads : ImportMemory(m)

MemoryStream ==
  \/ \E s \in SubIds, st \in PlainStatusTexts : AgentEvent(s, st)
  \/ \E s \in SubIds, r \in MemoryResponses : AnswerEvent(s, r)
  \/ \E s \in SubIds, m \in ErrorTexts, ce \in BOOLEAN : ErrorEvent(s, m, ce, TRUE)

MemoryFallback ==
  \/ \E s \in SubIds : FallbackTimerFires(s)
  \/ \E s \in SubIds, h \in MemoryHttpOutcomes : FallbackResponse(s, h)

NextMemory == SubmitHello \/ Import \/ MemoryStream \/ MemoryFallback

SpecMemory == Init /\ [][NextMemory]_vars

\* The model status tracker alone: mounted with any provider stored, it receives
\* status events and stream errors, polls, is refreshed, and is told of changes
\* of the stored selection, which also changes without a notification.
Notification == \E q \in StoredProviders : StorageChange(q)

StatusStream ==
  \/ \E st \in ModelStates : ModelStatusEvent(st)
  \/ StatusStreamError
  \/ FallbackDelayPasses
  \/ PollingFallbackTimerFires

Polling ==
  \/ \E st \in ModelStates, busy \in BOOLEAN, ok \in BOOLEAN : PollStatus(st, busy, ok)
  \/ \E st \in ModelStates, busy \in BOOLEAN : RefreshModelStatus(st, busy)
  \/ RefreshModelStatusFails

NextTracker == Notification \/ StatusStream \/ Polling \/ SelectProvider

SpecTracker == InitGuards /\ [][NextTracker]_vars

\* Timeouts run when they are due and time does not stop.
SpecTrackerFair ==
  SpecTracker /\ WF_vars(FallbackDelayPasses) /\ WF_vars(PollingFallbackTimerFires)

\* The SettingsProvider over page loads: whatever is stored at the first load,
\* the panels change settings, text updates are debounced, the page is reloaded.
InitSettings ==
  /\ Constructed /\ provider = DefaultProvider /\ Mounted
  /\ settingsCtx \in { SettingsConstructed(v) : v \in SavedValues }

SettingsChange ==
  \/ \E u \in SettingsUpdates : UpdateSettings(u)
  \/ \E u \in TextUpdates : UpdateTextSettings(u)
  \/ \E u \in TextUpdates : UpdateTextSettingsImmediate(u)
  \/ TextDebounceFires
  \/ ResetSettings

NextSettings == SettingsMountEffects \/ SettingsRerender \/ SettingsChange \/ Reload

SpecSettings == InitSettings /\ [][NextSettings]_vars

\* The tracker with its effect's cleanup.
NextTeardown == NextTracker \/ Unmount

SpecTeardown == InitGuards /\ [][NextTeardown]_vars

\* ----------------------------------------------------------------- claims
\* C1: single-flight guard. A sendToAgent call made while the lock is held
\* (sendingRef.current), with the in-flight text or with another one, appends no
\* user Message and opens no stream: the Conversation and the closures are the same
\* after the call, so a second sendToAgent("hello") right after the first leaves one
\* user Message "hello".
C1_SingleFlight ==
  [][ \A t \in UserTexts :
        (sendingRef /\ SendToAgent(t, FALSE))
          => /\ messages' = messages
             /\ nsubs' = nsubs
             /\ subs' = subs ]_vars

\* sendToAgent("hello") twice in immediate succession: the second call was rejected
\* by the lock and the Conversation holds the one user Message.
C1_Witness ==
  /\ last = [op |-> "sendToAgent", s |-> 0, res |-> "sending", text |-> <<"hello">>]
  /\ sendingRef
  /\ messages = << UserMessage(<<"hello">>, 1) >>
  /\ nsubs = 1 /\ subs[1].es = "open" /\ subs[1].fb = "armed" /\ nEvents = 0

\* Submission s was accepted / its stream handler ran a terminal event (done) /
\* its fallback request was issued and has come back.
Accepted(s) == s <= nsubs
FallbackCompleted(s) == subs[s].fb = "spent" /\ subs[s].nFallback > 0
Terminated(s) == subs[s].done \/ FallbackCompleted(s)
InFlight(s) == Accepted(s) /\ ~Terminated(s)
HoldsLock(s) == sendingRef /\ activeRequestRef = subs[s].text

\* C2: at most one accepted submission has not reached its terminal outcome, and a
\* submission that has not reached it still holds the lock (sendingRef and
\* activeRequestRef): no event of an earlier submission's stream has released it.
C2_OneInFlightHoldsLock ==
  /\ Cardinality({ s \in SubIds : InFlight(s) }) <= 1
  /\ \A s \in SubIds : InFlight(s) => HoldsLock(s)

\* C3: for one submission the stream path and the fallback path do not both commit
\* a final Message to the Conversation.
C3_OneTerminalMutation ==
  \A s \in SubIds : ~(subs[s].nStreamCommits > 0 /\ subs[s].nFallbackCommits > 0)

\* the controller is Idle: not awaiting a response and the lock free
Idle == ~isLoading /\ ~sendingRef /\ activeRequestRef = NoText

\* nothing is pending for any accepted submission: stream closed, safety timeout
\* spent, no debounce or minimum-visible timer armed
Quiescent ==
  /\ nsubs > 0
  /\ \A s \in SubIds :
       Accepted(s) => /\ subs[s].es = "closed"
                      /\ subs[s].fb = "spent"
                      /\ subs[s].indicatorTimer = NoTimer
                      /\ subs[s].finalTimer = NoTimer

\* C4: every accepted submission ends with the controller Idle; stated on finite
\* runs: once every stream is closed and every timer and request of the accepted
\* submissions has completed, the controller is Idle.
C4_SettlesIdle == Quiescent => Idle

\* C5: a fallback response that succeeds leaves the state the `answer` handler
\* leaves for the same payload: not awaiting, lock released, cooldown started iff the
\* response is not cached, memory persisted if returned, the final Message replacing
\* a trailing indicator or else appended.
C5_FallbackLikeAnswer ==
  [][ \A s \in SubIds, h \in HttpOutcomes :
        (FallbackResponse(s, h) /\ SendChatMessage(h, provider).ok)
          => LET resp == SendChatMessage(h, provider).data IN
             /\ isLoading' = FALSE
             /\ sendingRef' = FALSE
             /\ activeRequestRef' = NoText
             /\ RateLimitState' = (IF ~resp.cached
                                   THEN StartRateLimitCooldown(provider, RateLimitState)
                                   ELSE RateLimitState)
             /\ memStore' = CaptureMemory(resp, memStore)
             /\ messages' = ReplaceFinal(messages, AgentMessage(resp, s)) ]_vars

\* C6: a fallback request that fails clears the lock and the awaiting flag and
\* closes the stream.
C6_FallbackFailureClears ==
  (last.op = "fallbackResponse" /\ last.res = "failed")
    => /\ ~isLoading
       /\ ~sendingRef
       /\ activeRequestRef = NoText
       /\ subs[last.s].es = "closed"

\* C7: the Conversation holds at most one Message with isIndicator, and it is the
\* last element.
C7_IndicatorInvariant ==
  LET ind == { i \in 1..Len(messages) : messages[i].isIndicator } IN
  /\ Cardinality(ind) <= 1
  /\ \A i \in ind : i = Len(messages)

\* C8: a safety timeout that fires when its submission has handled a terminal
\* stream event, or when activeRequestRef no longer holds its text, issues no
\* fallback request and changes nothing: Conversation, lock, flags, cooldown,
\* memory and connection status are the same, and the stream is left as it is.
C8_StaleTimeoutNoop ==
  [][ \A s \in SubIds :
        (FallbackTimerFires(s) /\ (subs[s].done \/ activeRequestRef # subs[s].text))
          => /\ UNCHANGED controllerVars
             /\ subs'[s].nFallback = subs[s].nFallback
             /\ subs'[s].fb = "spent"
             /\ subs'[s].es = subs[s].es ]_vars

\* Submission B was accepted after A and holds the lock with another text when the
\* safety timeout of A fires: no request is issued and B keeps the lock.
C8_Witness ==
  /\ last.op = "fallbackTimer" /\ last.res = "skip" /\ last.s = 1
  /\ nsubs = 2
  /\ subs[1].nFallback = 0
  /\ subs[1].text # subs[2].text
  /\ HoldsLock(2) /\ isLoading

\* C9: a submission whose stream handled no terminal event and whose safety timeout
\* has run to completion had exactly one fallback request and exactly one terminal
\* mutation of the Conversation.
C9_OneFallbackOneMutation ==
  \A s \in SubIds :
    (Accepted(s) /\ ~subs[s].done /\ subs[s].fb = "spent")
      => /\ subs[s].nFallback = 1
         /\ subs[s].nFallbackCommits + subs[s].nStreamCommits = 1

\* the four guards as the specification lists them
InFlightLock == sendingRef
SameAsInFlight(text) == activeRequestRef = text
ModelStatusBlocks == isModelLoading \/ isModelUnloading \/ isProviderBusy
RateLimitBlocks == isRateLimited /\ provider # "ollama"
Rejects(text) ==
  InFlightLock \/ SameAsInFlight(text) \/ ModelStatusBlocks \/ RateLimitBlocks

\* C10: a sendToAgent call that a guard rejects is a no-op: Conversation, last-sent
\* text, awaiting flag, lock, RateLimitState, memory record and connection status
\* are unchanged, no stream is opened and no timer is armed.
C10_RejectedNoop ==
  [][ \A t \in UserTexts, o \in CallOptions :
        (SendToAgent(t, o) /\ Rejects(t))
          => /\ UNCHANGED << messages, lastUserMessage, isLoading, sendingRef,
                             activeRequestRef >>
             /\ UNCHANGED << isRateLimited, rateLimitCooldown, intervals >>
             /\ UNCHANGED << memStore, connectionStatus, isModelBusy, busyTimers >>
             /\ UNCHANGED << subs, nsubs >> ]_vars

\* A call was rejected by the model status guard alone (lock free, no cooldown)
\* after an exchange had completed, and the Conversation is the exchange.
C10_Witness ==
  /\ last.op = "sendToAgent" /\ last.res = "modelBusy"
  /\ ~sendingRef /\ activeRequestRef = NoText /\ ~isRateLimited
  /\ ModelStatusBlocks
  /\ Len(messages) = 2 /\ nsubs = 1 /\ ~isLoading

\* the conditions under which the specification lets a submission through
PassesGuards ==
  /\ ~sendingRef
  /\ ~(isModelLoading \/ isModelUnloading \/ isProviderBusy)
  /\ ~(isRateLimited /\ provider # "ollama")

\* C11: sendToAgent(text) appends the user Message, sets the awaiting flag and takes
\* the lock with key text exactly when the lock is free, none of isModelLoading,
\* isModelUnloading, isProviderBusy is set, and not (the cooldown is active and the
\* stored provider is not ollama); otherwise the Conversation is as it was.
C11_AcceptedIff ==
  [][ \A t \in UserTexts, o \in CallOptions :
        SendToAgent(t, o)
          => IF PassesGuards
             THEN /\ messages' = Append(messages, UserMessage(t, nsubs + 1))
                  /\ isLoading' /\ sendingRef' /\ activeRequestRef' = t
                  /\ nsubs' = nsubs + 1
             ELSE /\ messages' = messages
                  /\ nsubs' = nsubs
                  /\ UNCHANGED << isLoading, sendingRef, activeRequestRef >> ]_vars

\* A submission was accepted with ollama selected while the cooldown was active.
C11_Witness ==
  /\ last.op = "sendToAgent" /\ last.res = "accepted"
  /\ provider = "ollama" /\ isRateLimited /\ rateLimitCooldown > 0
  /\ sendingRef /\ isLoading /\ activeRequestRef = last.text
  /\ Last(messages) = UserMessage(last.text, nsubs)

\* C12: when an `answer` is handled while the indicator has been visible for less
\* than 450 ms, the Conversation is left as it is and the replacement is scheduled
\* for the remaining time; it then runs when the indicator has been visible for
\* exactly 450 ms. When the indicator has been visible for 450 ms or more, or is not
\* visible, the replacement is made by the handler itself.
C12_MinimumVisible ==
  [][ /\ \A s \in SubIds, r \in ChatResponses :
           AnswerEvent(s, r)
             => IF subs[s].indicatorShown /\ subs[s].shownElapsed < 450
                THEN /\ messages' = messages
                     /\ subs'[s].finalTimer = 450 - subs[s].shownElapsed
                ELSE /\ messages' = ReplaceFinal(messages, AgentMessage(r, s))
                     /\ subs'[s].finalTimer = NoTimer
      /\ \A s \in SubIds :
           ReplaceFinalFires(s)
             => /\ subs[s].shownElapsed = 450
                /\ messages' = ReplaceFinal(messages, subs[s].finalMsg) ]_vars

\* The answer came before the indicator had been visible for 450 ms; the final
\* Message took the place of the indicator when the 450 ms had passed.
C12_Witness ==
  /\ last.op = "replaceFinal" /\ last.s = 1
  /\ subs[1].shownElapsed = 450
  /\ messages = << UserMessage(<<"hello">>, 1),
                   AgentMessage([message |-> <<"ok">>], 1) >>

\* C13: the handler of an `answer` clears the awaiting flag, releases the lock and,
\* for a response that is not cached and a remote provider, starts the cooldown in
\* the step in which the event is handled, whether or not the replacement is
\* delayed; the delayed replacement changes none of them.
C13_TransitionNotDelayed ==
  [][ /\ \A s \in SubIds, r \in ChatResponses :
           AnswerEvent(s, r)
             => /\ isLoading' = FALSE
                /\ sendingRef' = FALSE
                /\ activeRequestRef' = NoText
                /\ (~r.cached /\ provider # "ollama")
                     => (isRateLimited' /\ rateLimitCooldown' = 60)
      /\ \A s \in SubIds :
           ReplaceFinalFires(s)
             => UNCHANGED << isLoading, sendingRef, activeRequestRef, isRateLimited,
                             rateLimitCooldown, intervals >> ]_vars

\* An answer that is not cached has been handled, its replacement is still pending
\* behind the indicator, and the submission is released and the cooldown running.
C13_Witness ==
  /\ last.op = "answer" /\ last.res = "delayed"
  /\ subs[last.s].finalTimer > 0
  /\ Last(messages).isIndicator
  /\ ~isLoading /\ ~sendingRef /\ activeRequestRef = NoText
  /\ isRateLimited /\ rateLimitCooldown = 60

C15_LocalExemption ==
  /\ [][ \A s \in SubIds, m \in ErrorTexts, ce \in BOOLEAN, f \in BOOLEAN :
           (ErrorEvent(s, m, ce, f) /\ IncludesRateLimit(m) /\ provider = "ollama")
             => /\ UNCHANGED << isRateLimited, rateLimitCooldown, intervals >>
                /\ isModelBusy'
                /\ busyTimers' = busyTimers + 1 ]_vars
  /\ [](isModelBusy => busyTimers > 0)
  /\ (isModelBusy ~> ~isModelBusy)

\* The local provider answered a submission with a rate-limit error: the notice
\* is set, its timer pending, and no cooldown was started.
C15_Witness ==
  /\ provider = "ollama"
  /\ last.op = "error" /\ last.res = "localRateLimit"
  /\ isModelBusy /\ busyTimers = 1
  /\ ~isRateLimited /\ rateLimitCooldown = 0 /\ intervals = 0

\* C16: whichever of the four branches the handler of an error event takes (local
\* rate limit, remote rate limit, connection error, other provider error), it
\* clears the awaiting flag and releases the lock.
C16_ErrorReleases ==
  [][ \A s \in SubIds, m \in ErrorTexts, ce \in BOOLEAN, f \in BOOLEAN :
        ErrorEvent(s, m, ce, f)
          => /\ ClassifyError(m, ce, provider)
                  \in { "localRateLimit", "rateLimit", "connection", "provider" }
             /\ isLoading' = FALSE
             /\ sendingRef' = FALSE
             /\ activeRequestRef' = NoText ]_vars

\* A provider error arrived through `provider-error` on the stream of the
\* submission in flight, which stays open, and the submission is released.
C16_Witness ==
  /\ last.op = "error" /\ last.res = "provider"
  /\ subs[last.s].es = "open" /\ subs[last.s].done
  /\ nsubs = last.s
  /\ ~isLoading /\ ~sendingRef /\ activeRequestRef = NoText

\* C17: an error event with the connection-error flag and no rate-limit text
\* leaves the Conversation as it is; it sets the connection status to offline,
\* clears the awaiting flag and releases the lock, and changes nothing else of
\* the visible state.
C17_ConnectionErrorFrame ==
  [][ \A s \in SubIds, m \in ErrorTexts, f \in BOOLEAN :
        (ErrorEvent(s, m, TRUE, f) /\ ~IncludesRateLimit(m))
          => /\ messages' = messages
             /\ connectionStatus' = "offline"
             /\ isLoading' = FALSE
             /\ sendingRef' = FALSE
             /\ activeRequestRef' = NoText
             /\ UNCHANGED << isRateLimited, rateLimitCooldown, intervals, isModelBusy,
                             busyTimers, lastUserMessage, provider, memStore,
                             isModelLoading, isModelUnloading, isProviderBusy >> ]_vars

\* A connection error ended the first submission: the Conversation still holds
\* only the user's Message and the status is offline.
C17_Witness ==
  /\ last.op = "error" /\ last.res = "connection" /\ last.s = 1
  /\ connectionStatus = "offline"
  /\ messages = << UserMessage(<<"hello">>, 1) >>
  /\ ~isLoading /\ ~sendingRef /\ activeRequestRef = NoText

\* C18: an error event whose message does not indicate rate limiting and that has
\* no connection-error flag replaces the trailing Message (or starts an empty
\* Conversation) with an assistant Message flagged isError whose content is the
\* text of the event, word for word.
C18_ProviderErrorVerbatim ==
  [][ \A s \in SubIds, m \in ErrorTexts, f \in BOOLEAN :
        (ErrorEvent(s, m, FALSE, f) /\ ~IncludesRateLimit(m))
          => /\ Len(messages') = (IF Len(messages) = 0 THEN 1 ELSE Len(messages))
             /\ \A i \in 1..(Len(messages') - 1) : messages'[i] = messages[i]
             /\ messages'[Len(messages')].role = "assistant"
             /\ messages'[Len(messages')].isError
             /\ ~messages'[Len(messages')].isIndicator
             /\ messages'[Len(messages')].content = m ]_vars

\* A provider error ended a submission and the Conversation ends with the
\* error Message carrying the provider's text with its capital letter.
C18_Witness ==
  /\ last.op = "error" /\ last.res = "provider"
  /\ Len(messages) > 0
  /\ Last(messages).role = "assistant" /\ Last(messages).isError
  /\ Last(messages).content = << "Upstream", "failure" >>
  /\ ToLowerCase(Last(messages).content) # Last(messages).content

\* C19: with a remote provider selected, an error event whose message indicates
\* rate limiting, with or without the connection-error flag, starts the Rate
\* Limit Timer (active, 60 s remaining) and replaces the trailing Message (or
\* starts an empty Conversation) with an assistant Message flagged isError that
\* carries the fixed rate-limit text; the connection status is not set offline.
C19_RemoteRateLimit ==
  [][ \A s \in SubIds, m \in ErrorTexts, ce \in BOOLEAN, f \in BOOLEAN :
        (ErrorEvent(s, m, ce, f) /\ IncludesRateLimit(m) /\ provider # "ollama")
          => /\ isRateLimited' /\ rateLimitCooldown' = 60
             /\ intervals' = intervals + 1
             /\ Len(messages') = (IF Len(messages) = 0 THEN 1 ELSE Len(messages))
             /\ \A i \in 1..(Len(messages') - 1) : messages'[i] = messages[i]
             /\ messages'[Len(messages')].role = "assistant"
             /\ messages'[Len(messages')].isError
             /\ messages'[Len(messages')].content =
                  << "Rate", "limit", "exceeded.", "Please", "wait", "before",
                     "sending", "another", "message." >>
             /\ connectionStatus' = "online" ]_vars

\* A remote provider answered with a rate-limit error: the cooldown runs and the
\* Conversation ends with the fixed rate-limit Message.
C19_Witness ==
  /\ provider \in { "gemini", "openai" }
  /\ last.op = "error" /\ last.res = "rateLimit"
  /\ isRateLimited /\ rateLimitCooldown = 60
  /\ Last(messages).isError /\ Last(messages).content = RATE_LIMIT_TEXT
  /\ ~isLoading /\ ~sendingRef

\* retryLastMessage passes its own test
RetryTakesEffect == lastUserMessage # NoText /\ ~isLoading /\ ~isRateLimited

\* C20: whenever retryLastMessage takes effect, the two trailing entries it
\* removes are the user Message of the last accepted submission and the assistant
\* Message that answered it, everything before them is kept, and the remembered
\* text is submitted again.
C20_RetryRemovesLastExchange ==
  [][ \A o \in CallOptions :
        (RetryLastMessage(o) /\ RetryTakesEffect)
          => /\ Len(messages) >= 2
             /\ messages[Len(messages) - 1] = UserMessage(lastUserMessage, nsubs)
             /\ messages[Len(messages)].role = "assistant"
             /\ ~messages[Len(messages)].isIndicator
             /\ messages[Len(messages)].sub = nsubs
             /\ messages' = Append(SubSeq(messages, 1, Len(messages) - 2),
                                   UserMessage(lastUserMessage, nsubs + 1))
             /\ activeRequestRef' = lastUserMessage ]_vars

\* C21: retryLastMessage changes nothing (Conversation, lock, flags, remembered
\* text, connections) when no text is remembered, when the single-flight lock is
\* held, or when the rate limit is active.
C21_RetryNoop ==
  [][ \A o \in CallOptions :
        (RetryLastMessage(o) /\ (lastUserMessage = NoText \/ sendingRef \/ isRateLimited))
          => UNCHANGED << messages, isLoading, sendingRef, activeRequestRef,
                          lastUserMessage, isRateLimited, rateLimitCooldown,
                          connectionStatus, memStore, nsubs, subs >> ]_vars

\* C22: clearMessages empties the Conversation and forgets the remembered text
\* and changes nothing else (lock, awaiting flag, RateLimitState, memory record,
\* streams and timers of the submissions, connections); while no text is
\* remembered retryLastMessage changes nothing, and only an accepted submission
\* makes a text remembered again.
C22_ClearMessagesFrame ==
  [][ /\ ClearMessages
          => /\ messages' = << >>
             /\ lastUserMessage' = NoText
             /\ UNCHANGED << isLoading, sendingRef, activeRequestRef, isRateLimited,
                             rateLimitCooldown, intervals, isModelBusy, busyTimers,
                             connectionStatus, provider, memStore, isModelLoading,
                             isModelUnloading, isProviderBusy, subs, nsubs >>
      /\ \A o \in CallOptions :
           (RetryLastMessage(o) /\ lastUserMessage = NoText)
             => UNCHANGED << messages, lastUserMessage, isLoading, sendingRef,
                             activeRequestRef, isRateLimited, rateLimitCooldown,
                             connectionStatus, memStore, subs, nsubs >>
      /\ (lastUserMessage = NoText /\ lastUserMessage' # NoText)
           => (last'.op = "sendToAgent" /\ last'.res = "accepted") ]_vars

\* The Conversation was cleared while a submission was in flight; its stream and
\* the lock are as they were, and the retry that followed did nothing.
C22_Witness ==
  /\ last.op = "retry" /\ last.res = "noop"
  /\ messages = << >> /\ lastUserMessage = NoText
  /\ nsubs = 1 /\ subs[1].es = "open" /\ ~subs[1].done
  /\ isLoading /\ sendingRef /\ activeRequestRef = subs[1].text

\* C23: in every reachable state the remaining seconds are in 0..60, the timer is
\* active whenever seconds remain, and it is inactive when none remains.
C23_RateLimitStateInvariant ==
  /\ rateLimitCooldown \in 0..60
  /\ rateLimitCooldown > 0 => isRateLimited
  /\ rateLimitCooldown = 0 => ~isRateLimited

\* A countdown has run down to its last second and is still active.
C23_Witness ==
  /\ last.op = "intervalTick"
  /\ isRateLimited /\ rateLimitCooldown = 1 /\ intervals = 1

\* C24: while seconds remain, each second that passes takes exactly one from the
\* remaining seconds, also when the countdown was started again while it was
\* running; when none remains the timer is inactive and no interval is left.
C24_Countdown ==
  [][ SecondPasses
        => /\ rateLimitCooldown > 1 => rateLimitCooldown' = rateLimitCooldown - 1
           /\ rateLimitCooldown <= 1
                => (rateLimitCooldown' = 0 /\ ~isRateLimited' /\ intervals' = 0) ]_vars

\* C25: with the local provider selected, the start of the Rate Limit Timer that
\* the handler of a not cached `answer` calls leaves RateLimitState (active,
\* remaining) as it was, also while a countdown started under a remote provider
\* is running.
C25_LocalStartNoop ==
  [][ \A s \in SubIds, r \in ChatResponses :
        (AnswerEvent(s, r) /\ ~r.cached /\ provider = "ollama")
          => UNCHANGED << isRateLimited, rateLimitCooldown >> ]_vars

\* C26: the safety timeout of a submission is armed in the step that accepts it,
\* with 30000 ms when the local provider is selected at that moment, 15000 ms for
\* the built-in remote provider (also when none is stored) and 20000 ms for any
\* other; no later step re-arms it or changes its budget, and an `agent` event
\* leaves the timer as it is.
C26_FallbackBudget ==
  [][ /\ \A s \in SubIds :
           IF nsubs' = nsubs + 1 /\ s = nsubs'
           THEN /\ subs'[s].fb = "armed"
                /\ subs'[s].timeoutMs =
                     (IF provider = "ollama" THEN 30000
                      ELSE IF provider \in { "gemini", NoStoredProvider } THEN 15000
                      ELSE 20000)
           ELSE /\ subs'[s].timeoutMs = subs[s].timeoutMs
                /\ subs'[s].fb = "armed" => subs[s].fb = "armed"
      /\ \A s \in SubIds, st \in StatusTexts :
           AgentEvent(s, st) => subs'[s].fb = subs[s].fb ]_vars

\* A submission was accepted under the local provider; the selection changed
\* and an `agent` event arrived, and its timeout is still armed with 30000 ms.
C26_Witness ==
  /\ last.op = "agent" /\ last.s = 1
  /\ provider = "openai"
  /\ subs[1].fb = "armed" /\ subs[1].timeoutMs = 30000

\* C27: the memory token of the stream request of an accepted submission is the
\* token of the record stored when it is accepted, and none when recall is
\* disabled or nothing is stored; the fallback request of the submission carries
\* the same token, whatever was stored in between.
C27_MemoryPropagation ==
  [][ /\ \A t \in UserTexts, o \in CallOptions :
           (SendToAgent(t, o) /\ nsubs' = nsubs + 1)
             => /\ StreamRequest(subs'[nsubs'])
                     = [message |-> t,
                        memoryToken |-> IF o \/ memStore = NoMemory
                                        THEN None ELSE memStore.token]
                /\ FallbackRequest(subs'[nsubs']).memoryToken
                     = StreamRequest(subs'[nsubs']).memoryToken
      /\ \A s \in SubIds :
           s <= nsubs => FallbackRequest(subs'[s]) = FallbackRequest(subs[s]) ]_vars

\* The fallback request of a submission goes out with the token that was stored
\* when the submission was accepted, after the record was replaced.
C27_Witness ==
  /\ last.op = "fallbackTimer" /\ last.res = "request"
  /\ FallbackRequest(subs[last.s]).memoryToken = "m2"
  /\ memStore.token # "m2"

\* C28: the stored memory record changes only in the handler of an `answer` or
\* of a successful fallback response that carries a memory token or chunks,
\* which stores exactly those, and in importMemory; answers and fallback
\* responses without memory, failed fallbacks, `agent` events, error events and
\* submissions, accepted or rejected, leave it as it is.
C28_MemoryWrites ==
  [][ /\ \A s \in SubIds, r \in ChatResponses :
           AnswerEvent(s, r)
             => memStore' = (IF r.metadata # NoMemory THEN r.metadata ELSE memStore)
      /\ \A s \in SubIds, h \in HttpOutcomes :
           FallbackResponse(s, h)
             => memStore' = (IF h.status = 200 /\ h.data.metadata # NoMemory
                             THEN h.data.metadata ELSE memStore)
      /\ \A m \in ImportPayloads : ImportMemory(m) => memStore' = m
      /\ memStore' # memStore
           => \/ last'.op \in { "answer", "fallbackResponse" }
              \/ \E m \in ImportPayloads : ImportMemory(m) ]_vars

\* An answer carrying memory has replaced the imported record that its
\* submission was sent with.
C28_Witness ==
  /\ last.op = "answer"
  /\ subs[last.s].memory.token = "m2"
  /\ memStore = [token |-> "m1", chunks |-> "c1"]

\* C29: in every reachable state isModelLoading is true exactly when a ModelStatus
\* is held and its state is LOADING, and isModelUnloading exactly when it is
\* UNLOADING.
C29_DerivedBooleans ==
  /\ isModelLoading = (modelStatus # NoStatus /\ modelStatus.state = "LOADING")
  /\ isModelUnloading = (modelStatus # NoStatus /\ modelStatus.state = "UNLOADING")

\* After a stream error the fallback polls the local provider, and a poll has
\* stored an UNLOADING status.
C29_Witness ==
  /\ last.op = "poll"
  /\ modelStatus = [providerId |-> "ollama", state |-> "UNLOADING"]
  /\ isModelUnloading /\ ~isModelLoading
  /\ tracker.mode = "poll" /\ tracker.pollMs = 10000

\* C30: on a change notification for the stored selection the tracker closes the
\* subscription or poll loop it has and starts the live status stream when the
\* local provider is now selected, and otherwise a poll loop (every 15000 ms)
\* whose first poll stores an IDLE status without a request.
C30_RestartOnChange ==
  [][ \A q \in StoredProviders :
        StorageChange(q)
          => IF q = "ollama"
             THEN tracker'.mode = "stream"
             ELSE /\ tracker'.mode = "poll" /\ tracker'.pollMs = 15000
                  /\ modelStatus'.state = "IDLE"
                  /\ ~isModelLoading' /\ ~isModelUnloading' ]_vars

\* C31: after an error of the status stream the polling fallback runs, and it runs
\* when the 5 seconds of its timeout have passed; it closes the subscription and
\* leaves a poll loop running whose interval is the one of the provider stored
\* at that time (10000 ms for the local provider, 15000 ms otherwise).
C31_FallbackToPolling ==
  /\ [][ StatusStreamError
           => tracker'.timers = Append(tracker.timers, FALLBACK_DELAY) ]_vars
  /\ [][ PollingFallbackTimerFires
           => /\ Head(tracker.timers) = 0
              /\ tracker'.mode = "poll"
              /\ tracker'.pollMs = IF provider = "ollama" THEN 10000 ELSE 15000 ]_vars
  /\ (tracker.timers # << >>) ~> (last.op = "pollingFallback" /\ tracker.mode = "poll")

\* The stream of the local provider failed and the fallback now polls it.
C31_Witness ==
  /\ last.op = "pollingFallback"
  /\ provider = "ollama"
  /\ tracker = [mode |-> "poll", pollMs |-> 10000, running |-> 1, timers |-> << >>,
                mounted |-> TRUE]

\* C40: in every reachable state at most one status subscription or poll loop is
\* running, and none once the tracker has been torn down.
C40_OneLoop ==
  /\ tracker.running <= 1
  /\ ~tracker.mounted => tracker.running = 0

\* C32: the first `agent` event of a submission arms the debounce timer of
\* DEBOUNCE_MS and adds nothing to the Conversation, and once the `answer` or
\* `error` of a submission has been handled before an indicator was shown, no
\* debounce timer of that submission adds an indicator Message any more.
C32_Debounce ==
  /\ [][ \A s \in SubIds, st \in StatusTexts :
           (AgentEvent(s, st) /\ ~subs[s].indicatorShown /\ subs[s].indicatorTimer = NoTimer)
             => (subs'[s].indicatorTimer = DEBOUNCE_MS /\ messages' = messages) ]_vars
  /\ [][ \A s \in SubIds :
           (subs[s].done /\ ~subs[s].indicatorShown) => ~IndicatorTimerFires(s) ]_vars

\* the steps of the stream event handlers, the fallback response and the two
\* short timers
HandlerOps == { "agent", "indicatorTimer", "answer", "replaceFinal", "error", "fallbackResponse" }

\* next is prev, prev with one Message appended, or prev with its last Message replaced
TrailingOnly(prev, next) ==
  \/ next = prev
  \/ Len(next) = Len(prev) + 1 /\ ButLast(next) = prev
  \/ Len(prev) > 0 /\ Len(next) = Len(prev) /\ ButLast(next) = ButLast(prev)

\* C33: every step of a stream event handler, of the fallback response and of the
\* debounce and minimum-visible timers leaves the Conversation as it is, appends
\* one Message, or replaces or updates the last Message; no Message before the
\* last one is removed or altered.
C33_TrailingOnly ==
  [][ last'.op \in HandlerOps => TrailingOnly(messages, messages') ]_vars

NoShortTimerPending ==
  \A s \in SubIds : subs[s].indicatorTimer = NoTimer /\ subs[s].finalTimer = NoTimer

\* C35: whenever the controller is Idle and no debounce timer or delayed final
\* replacement is pending, the Conversation holds no Message with isIndicator.
C35_IndicatorsEphemeral ==
  (Idle /\ NoShortTimerPending)
    => \A i \in DOMAIN messages : ~messages[i].isIndicator

\* every user Message of prev is a Message of next
KeepsUserMessages(prev, next) ==
  \A i \in DOMAIN prev :
     prev[i].role = "user" => \E j \in DOMAIN next : next[j] = prev[i]

\* C36: no step of a stream event handler, of the fallback response or of the two
\* short timers removes or overwrites a user Message: every user Message of the
\* Conversation is still in it after the step.
C36_UserMessagesKept ==
  [][ last'.op \in HandlerOps => KeepsUserMessages(messages, messages') ]_vars

\* C37: retryLastMessage either leaves the Conversation as it is, or a new
\* submission with the remembered text is in flight after it and its user Message
\* is the last Message of the Conversation.
C37_RetryResubmits ==
  [][ \A o \in CallOptions :
        RetryLastMessage(o)
          => \/ messages' = messages
             \/ /\ last'.res = "accepted"
                /\ isLoading' /\ sendingRef' /\ activeRequestRef' = lastUserMessage
                /\ Len(messages') > 0
                /\ Last(messages') = UserMessage(lastUserMessage, nsubs') ]_vars

\* the events a stream delivers to the handler
StreamOps == { "agent", "answer", "error" }

\* C38: an event handled on the stream of a submission whose terminal event has
\* been handled changes nothing: Conversation, flags, lock, cooldown, memory and
\* connection status stay as they are and no indicator timer is armed.
C38_EventsAfterTerminal ==
  [][ \A s \in SubIds :
        (subs[s].done /\ last'.op \in StreamOps /\ last'.s = s)
          => /\ UNCHANGED controllerVars
             /\ subs'[s].indicatorTimer = subs[s].indicatorTimer ]_vars

\* a final assistant Message: neither an indicator nor an error Message
IsFinalAnswer(m) == m.role = "assistant" /\ ~m.isIndicator /\ ~m.isError

\* the user Message of a submission accepted after submission a is in the Conversation
LaterUserMessage(a) ==
  \E i \in DOMAIN messages : messages[i].role = "user" /\ messages[i].sub > a

\* C39: the final assistant Message of a submission precedes the user Message of
\* every submission accepted after it, and no debounce timer or delayed final
\* replacement of a submission changes the Conversation once the user Message of
\* a later submission is in it.
C39_CompletionOrder ==
  /\ [](\A i, j \in DOMAIN messages :
           ( /\ messages[i].role = "user"
             /\ IsFinalAnswer(messages[j])
             /\ messages[j].sub < messages[i].sub ) => j < i)
  /\ [][ \A a \in SubIds :
           ((ReplaceFinalFires(a) \/ IndicatorTimerFires(a)) /\ LaterUserMessage(a))
             => messages' = messages ]_vars

====
